---- MODULE Spec2Model ----
(***************************************************************************)
(* Model of backend/videoprocessing/generate_sprite.py: the thumbnail      *)
(* sprite and WebVTT generator.  Times are integers in milliseconds (the   *)
(* program's floats are 0.5 or whole seconds, which are exact in binary    *)
(* floating point).  External tools (ffprobe, ffmpeg) are the environment: *)
(* an invocation is issued by one action and returns, with success or      *)
(* failure, by another.                                                    *)
(***************************************************************************)
EXTENDS Integers, Sequences, FiniteSets, TLC

(* ------------------------------ bounds --------------------------------- *)
MaxVideos == 2          \* most video files in the input directory
MaxFailIdx == 0         \* frame extractions 0..MaxFailIdx may fail
MaxSampleDur == 130     \* the sampler on its own: durations up to this many tenths of a second
MaxSampleInterval == 6  \* the sampler on its own: intervals 1..MaxSampleInterval

(* ------------------------- program constants --------------------------- *)
MsPerSec == 1000
SingleMax == 50         \* len(timestamps) <= 50
MinTs == 500            \* max(0.5, i)
ClosingMs == 1000       \* format_timestamp(ts + 1)
MinWorkers == 2
MaxWorkers == 8
DefaultCpu == 4         \* os.cpu_count() or 4
JpegLo == 2
JpegHi == 31
JpegBase == 32
JpegScale == 30
Percent == 100
CompressionLevel == 6
SecPerMin == 60
SecPerHour == 3600
NumExt == 6             \* "*.mp4", "*.mov", "*.avi", "*.mkv", "*.webm", "*.m4v"
DefaultCols == 10
DefaultWidth == 320
DefaultHeight == 180
DefaultQuality == 85
SparseInterval == 5     \* the default --interval
MaxQuality == 100       \* --image-quality: "Image quality 1-100"

(* --------------------------- input universes --------------------------- *)
ColsSet == {3, DefaultCols}
Sizes == {<<DefaultWidth, DefaultHeight>>, <<160, 90>>}
Formats == {"webp", "jpg", "png"}
Qualities == {DefaultQuality}
CpuCounts == {2}        \* 0 stands for os.cpu_count() returning None
\* the files that may lie in the input directory: stems are numbered in the
\* order their names sort, extensions by their place in the glob pattern tuple
FileIds == {[name |-> 1, ext |-> 1], [name |-> 2, ext |-> 1], [name |-> 1, ext |-> 2]}

\* What ffprobe can answer for a file: a non-zero exit, text float() rejects,
\* "nan", "inf", or a finite number of seconds (here in milliseconds).
DurationsMs == {-2000, 0, 200, 3000, 10500, 12000, 51000}
ProbeResults ==
    {[kind |-> k, ms |-> 0] : k \in {"exit_nonzero", "unparseable", "nan", "inf"}}
    \cup {[kind |-> "finite", ms |-> d] : d \in DurationsMs}

NoProbe == [kind |-> "none", ms |-> 0]
NoCmd == [tool |-> "none"]

Max(a, b) == IF a >= b THEN a ELSE b
Min(a, b) == IF a <= b THEN a ELSE b

(* ---------------------------- pure functions --------------------------- *)

\* get_worker_count, as a function of what os.cpu_count() returned
get_worker_count(cpuCount) ==
    Min(MaxWorkers, Max(MinWorkers, IF cpuCount = 0 THEN DefaultCpu ELSE cpuCount))

\* int(x) of a float held in milliseconds: truncation towards zero
PyInt(ms) == IF ms >= 0 THEN ms \div MsPerSec ELSE -((-ms) \div MsPerSec)

\* len(range(0, stop, step)) for step > 0
RangeLen(stop, step) == IF stop <= 0 THEN 0 ELSE (stop + step - 1) \div step

\* timestamps = [max(0.5, i) for i in range(0, int(duration), interval)]
\* if not timestamps: timestamps = [0.5]
SampleTimestampsNoClamp(durMs, interval) ==
    LET n == RangeLen(PyInt(durMs), interval)
    IN  IF n = 0 THEN <<MinTs>>
        ELSE [k \in 1..n |-> (k - 1) * interval * MsPerSec]

SampleTimestampsNoFallback(durMs, interval) ==
    LET n == RangeLen(PyInt(durMs), interval)
    IN  [k \in 1..n |-> Max(MinTs, (k - 1) * interval * MsPerSec)]

SampleTimestamps(durMs, interval) ==
    LET n == RangeLen(PyInt(durMs), interval)
    IN  IF n = 0 THEN <<MinTs>>
        ELSE [k \in 1..n |-> Max(MinTs, (k - 1) * interval * MsPerSec)]

\* format_timestamp: the four fields printed as HH:MM:SS.mmm
format_timestamp(t) ==
    [h  |-> (t \div MsPerSec) \div SecPerHour,
     m  |-> ((t \div MsPerSec) \div SecPerMin) % SecPerMin,
     s  |-> (t \div MsPerSec) % SecPerMin,
     ms |-> t % MsPerSec]

\* the instant a printed HH:MM:SS.mmm denotes, as a player parses it
ParseTimestamp(f) == ((f.h * SecPerMin + f.m) * SecPerMin + f.s) * MsPerSec + f.ms

\* math.ceil(total / cols)
RowsFloor(total, cols) == total \div cols

Rows(total, cols) == (total + cols - 1) \div cols

\* write_vtt: the cue list written to the .vtt file
write_vttEndAtOwnStart(ts, cols, size) ==
    [i \in 1..Len(ts) |->
        [start |-> format_timestamp(ts[i]),
         end   |-> IF i < Len(ts) THEN format_timestamp(ts[i])
                   ELSE format_timestamp(ts[i] + ClosingMs),
         x |-> ((i - 1) % cols) * size[1],
         y |-> ((i - 1) \div cols) * size[2],
         w |-> size[1],
         h |-> size[2]]]

write_vtt(ts, cols, size) ==
    [i \in 1..Len(ts) |->
        [start |-> format_timestamp(ts[i]),
         end   |-> IF i < Len(ts) THEN format_timestamp(ts[i + 1])
                   ELSE format_timestamp(ts[i] + ClosingMs),
         x |-> ((i - 1) % cols) * size[1],
         y |-> ((i - 1) \div cols) * size[2],
         w |-> size[1],
         h |-> size[2]]]

\* q_val = max(2, min(31, 32 - (quality * 30 // 100)))
JpegQNoUpperClamp(quality) == Max(JpegLo, JpegBase - ((quality * JpegScale) \div Percent))

JpegQ(quality) == Max(JpegLo, Min(JpegHi, JpegBase - ((quality * JpegScale) \div Percent)))

\* encoder arguments chosen by create_sprite_single_command
SingleEncoder(fmt, quality) ==
    IF fmt = "webp" THEN [codec |-> "libwebp", q |-> quality, level |-> CompressionLevel]
    ELSE IF fmt \in {"jpg", "jpeg"} THEN [codec |-> "mjpeg", q |-> JpegQ(quality), level |-> 0]
    ELSE [codec |-> "png", q |-> 0, level |-> CompressionLevel]

\* encoder arguments chosen by create_sprite_streaming
StreamingEncoderJpgOnly(fmt, quality) ==
    IF fmt = "webp" THEN [codec |-> "libwebp", q |-> quality, level |-> CompressionLevel]
    ELSE IF fmt = "jpg" THEN [codec |-> "mjpeg", q |-> JpegQ(quality), level |-> 0]
    ELSE [codec |-> "png", q |-> 0, level |-> CompressionLevel]

StreamingEncoder(fmt, quality) ==
    IF fmt = "webp" THEN [codec |-> "libwebp", q |-> quality, level |-> CompressionLevel]
    ELSE IF fmt \in {"jpg", "jpeg"} THEN [codec |-> "mjpeg", q |-> JpegQ(quality), level |-> 0]
    ELSE [codec |-> "png", q |-> 0, level |-> CompressionLevel]

\* the ffmpeg command of create_sprite_single_command
SingleCmd(ts, size, cols, fmt, quality, cpuCount) ==
    [tool    |-> "ffmpeg_single",
     select  |-> SubSeq(ts, 1, Min(Len(ts), SingleMax)),
     scale   |-> size,
     tile    |-> <<cols, Rows(Len(ts), cols)>>,
     enc     |-> SingleEncoder(fmt, quality),
     threads |-> get_worker_count(cpuCount)]

\* the ffmpeg command of extract_frame, called by extract_worker for index idx
ExtractCmdShortName(idx, t, size, quality) ==
    [tool  |-> "ffmpeg_extract",
     ss    |-> t,
     scale |-> size,
     enc   |-> [codec |-> "mjpeg", q |-> JpegQ(quality), level |-> 0],
     out   |-> idx % 10]

ExtractCmd(idx, t, size, quality) ==
    [tool  |-> "ffmpeg_extract",
     ss    |-> t,
     scale |-> size,
     enc   |-> [codec |-> "mjpeg", q |-> JpegQ(quality), level |-> 0],
     out   |-> idx]

\* the tiling ffmpeg command of create_sprite_streaming
ComposeCmd(total, cols, fmt, quality) ==
    [tool |-> "ffmpeg_tile",
     tile |-> <<cols, Rows(total, cols)>>,
     enc  |-> StreamingEncoder(fmt, quality)]

\* the image2 demuxer reads frame_00000.jpg, frame_00001.jpg, ... until one is missing
ReadLen(fr) ==
    IF fr = <<>> THEN 0
    ELSE CHOOSE n \in 0..Cardinality(DOMAIN fr) :
            /\ \A i \in 0..(n - 1) : i \in DOMAIN fr
            /\ n \notin DOMAIN fr

ReadFrames(fr) == [k \in 1..ReadLen(fr) |-> fr[k - 1]]

\* video_files: for each pattern in turn, the sorted matches
SortedSeq(S) ==
    LET RECURSIVE srt(_)
        srt(T) == IF T = {} THEN <<>>
                  ELSE LET lo == CHOOSE x \in T : \A y \in T : x <= y
                       IN  <<lo>> \o srt(T \ {lo})
    IN  srt(S)

GlobUnsorted(files, e) ==
    LET names == SortedSeq({f.name : f \in {g \in files : g.ext = e}})
    IN  [k \in 1..Len(names) |-> [name |-> names[Len(names) + 1 - k], ext |-> e]]

GlobSorted(files, e) ==
    LET names == SortedSeq({f.name : f \in {g \in files : g.ext = e}})
    IN  [k \in 1..Len(names) |-> [name |-> names[k], ext |-> e]]

RECURSIVE VideoFilesFrom(_, _)
VideoFilesFrom(files, e) ==
    IF e > NumExt THEN <<>>
    ELSE GlobSorted(files, e) \o VideoFilesFrom(files, e + 1)

VideoFiles(files) == VideoFilesFrom(files, 1)

(* -------------------------------- state -------------------------------- *)
VARIABLES
    args,         \* parsed command line: cols, size, interval, image_format, image_quality
    cpu,          \* os.cpu_count() (0 for None)
    input,        \* [kind, files]: the --input path and what is under it
    video_files,  \* main: the list being processed
    vi,           \* main: position of the loop in video_files (1-based)
    pc,           \* position of the main thread
    error,        \* the exception that ended the run, or "none"
    duration,     \* process_video: the probe result
    timestamps,   \* process_video: the sample list
    singleCmd,    \* the single-pass command issued for this video, or NoCmd
    composeCmd,   \* the tiling command issued for this video, or NoCmd
    tmpdir,       \* the TemporaryDirectory exists
    frames,       \* tmpdir content: frame index -> timestamp of the frame in that file
    nextTask,     \* pool: index of the first task still in the work queue
    running,      \* pool: indices whose extract_frame is running
    failed,       \* pool: indices whose future holds an exception
    extractCmds,  \* the extract_frame commands started for this video, in order
    sprite,       \* sprite file of this video: source timestamp of each tile, or <<>>
    vtt,          \* cue file of this video: its cues, or <<>>
    reported,     \* history: number of videos whose summary line was printed
    log           \* history: what happened for the current video, in order

vars == <<args, cpu, input, video_files, vi, pc, error, duration, timestamps,
          singleCmd, composeCmd, tmpdir, frames, nextTask, running, failed,
          extractCmds, sprite, vtt, reported, log>>

config == <<args, cpu, input>>
locals == <<duration, timestamps, singleCmd, composeCmd, sprite, vtt>>
pool == <<frames, nextTask, running, failed, extractCmds>>

Total == Len(timestamps)
Workers == get_worker_count(cpu)

(* ------------------------------- initial ------------------------------- *)
\* every combination at the sparse interval, and the default command line at the
\* dense one (which is what takes a video past SingleMax samples)
ArgSets ==
    {[cols |-> c, size |-> z, interval |-> SparseInterval, image_format |-> f,
      image_quality |-> q] : c \in ColsSet, z \in Sizes, f \in Formats, q \in Qualities}
    \cup {[cols |-> DefaultCols, size |-> <<DefaultWidth, DefaultHeight>>,
           interval |-> 1, image_format |-> "webp",
           image_quality |-> DefaultQuality]}

Inputs ==
    {[kind |-> "missing", files |-> {}]}
    \cup {[kind |-> "file", files |-> {[name |-> 1, ext |-> 1]}]}
    \cup {[kind |-> "dir", files |-> F] :
            F \in {G \in SUBSET FileIds : Cardinality(G) <= MaxVideos}}

\* the state in which main has parsed its arguments
Init ==
    /\ args \in ArgSets
    /\ cpu \in CpuCounts
    /\ input \in Inputs
    /\ video_files = <<>>
    /\ vi = 0
    /\ pc = "main"
    /\ error = "none"
    /\ duration = NoProbe
    /\ timestamps = <<>>
    /\ singleCmd = NoCmd
    /\ composeCmd = NoCmd
    /\ tmpdir = FALSE
    /\ frames = <<>>
    /\ nextTask = 0
    /\ running = {}
    /\ failed = {}
    /\ extractCmds = <<>>
    /\ sprite = <<>>
    /\ vtt = <<>>
    /\ reported = 0
    /\ log = <<>>

(* ------------------------------- actions ------------------------------- *)

\* an uncaught exception leaves process_video and main
RaiseSkipsVideo(e) ==
    /\ pc' = "report"
    /\ error' = e

Raise(e) ==
    /\ pc' = "crashed"
    /\ error' = e

\* process_video is entered for video v: its locals are fresh, sprite and vtt
\* stand for what this call writes to its sprite_path and vtt_path, and no
\* extraction has been started for it
EnterVideo(v) ==
    /\ vi' = v
    /\ pc' = "probe"
    /\ duration' = NoProbe
    /\ timestamps' = <<>>
    /\ singleCmd' = NoCmd
    /\ composeCmd' = NoCmd
    /\ sprite' = <<>>
    /\ vtt' = <<>>
    /\ extractCmds' = <<>>
    /\ log' = <<>>

\* main: a directory with video files
MainDir ==
    /\ pc = "main"
    /\ input.kind = "dir"
    /\ VideoFiles(input.files) # <<>>
    /\ video_files' = VideoFiles(input.files)
    /\ EnterVideo(1)
    /\ UNCHANGED <<config, error, tmpdir, frames, nextTask, running, failed, reported>>

\* main: a directory without video files, or a path that does not exist
MainExit ==
    /\ pc = "main"
    /\ \/ input.kind = "dir" /\ VideoFiles(input.files) = <<>>
       \/ input.kind = "missing"
    /\ pc' = "exit1"
    /\ UNCHANGED <<config, video_files, vi, error, locals, tmpdir, pool, log, reported>>

\* main: a single file
MainFile ==
    /\ pc = "main"
    /\ input.kind = "file"
    /\ video_files' = VideoFiles(input.files)
    /\ EnterVideo(1)
    /\ UNCHANGED <<config, error, tmpdir, frames, nextTask, running, failed, reported>>

\* duration = probe_duration(input_path): ffprobe answers; check=True raises on
\* a non-zero exit and float() raises on text that is no number
ProbeDuration ==
    /\ pc = "probe"
    /\ log' = Append(log, "probe")
    /\ \E r \in ProbeResults :
        \/ /\ r.kind = "exit_nonzero"
           /\ Raise("CalledProcessError")
           /\ UNCHANGED duration
        \/ /\ r.kind = "unparseable"
           /\ Raise("ValueError")
           /\ UNCHANGED duration
        \/ /\ r.kind \in {"nan", "inf", "finite"}
           /\ duration' = r
           /\ pc' = "sample"
           /\ UNCHANGED error
    /\ UNCHANGED <<config, video_files, vi, timestamps, singleCmd, composeCmd,
                   sprite, vtt, tmpdir, pool, reported>>

\* timestamps = [...]; if not timestamps: timestamps = [0.5]
SampleStep ==
    /\ pc = "sample"
    /\ duration.kind = "finite"
    /\ log' = Append(log, "sample")
    /\ timestamps' = SampleTimestamps(duration.ms, args.interval)
    /\ pc' = "assemble"
    /\ UNCHANGED <<config, video_files, vi, error, duration, singleCmd, composeCmd,
                   sprite, vtt, tmpdir, pool, reported>>

\* int(duration) raises ValueError for nan and OverflowError for inf
SampleRaises ==
    /\ pc = "sample"
    /\ duration.kind \in {"nan", "inf"}
    /\ log' = Append(log, "sample")
    /\ Raise(IF duration.kind = "nan" THEN "ValueError" ELSE "OverflowError")
    /\ UNCHANGED <<config, video_files, vi, locals, tmpdir, pool, reported>>

\* if len(timestamps) <= 50 and create_sprite_single_command(...): the call
\* builds the command and starts ffmpeg (subprocess.run).  The call's own test
\* total_frames > 50 (line 61) is never true behind the caller's test.
SingleCommandRunUnguarded ==
    /\ pc = "assemble"
    /\ log' = log \o <<"assemble", "single">>
    /\ singleCmd' = SingleCmd(timestamps, args.size, args.cols, args.image_format,
                              args.image_quality, cpu)
    /\ pc' = "single_wait"
    /\ UNCHANGED <<config, video_files, vi, error, duration, timestamps, composeCmd,
                   sprite, vtt, tmpdir, pool, reported>>

SingleCommandRun ==
    /\ pc = "assemble"
    /\ Total <= SingleMax
    /\ log' = log \o <<"assemble", "single">>
    /\ singleCmd' = SingleCmd(timestamps, args.size, args.cols, args.image_format,
                              args.image_quality, cpu)
    /\ pc' = "single_wait"
    /\ UNCHANGED <<config, video_files, vi, error, duration, timestamps, composeCmd,
                   sprite, vtt, tmpdir, pool, reported>>

\* ffmpeg exits 0: the sheet holds the selected frames in stream order; return True
SingleCommandOk ==
    /\ pc = "single_wait"
    /\ log' = Append(log, "single_ok")
    /\ sprite' = singleCmd.select
    /\ pc' = "write_vtt"
    /\ UNCHANGED <<config, video_files, vi, error, duration, timestamps, singleCmd,
                   composeCmd, vtt, tmpdir, pool, reported>>

\* create_sprite_streaming is entered: the temporary directory is made and every
\* (idx, ts) is submitted to the pool.  The submissions are one step: submit
\* neither blocks nor fails, and the queue hands the items out in index order
\* whether or not later ones are already in it.
StreamingEnter ==
    /\ tmpdir' = TRUE
    /\ frames' = <<>>
    /\ nextTask' = 0
    /\ running' = {}
    /\ failed' = {}
    /\ extractCmds' = <<>>
    /\ pc' = "as_completed"

\* ffmpeg exits non-zero: CalledProcessError is caught, return False, and the
\* else branch calls create_sprite_streaming
SingleCommandFailedRetry ==
    /\ pc = "single_wait"
    /\ log' = Append(log, "single_failed")
    /\ pc' = "assemble"
    /\ UNCHANGED <<config, video_files, vi, error, locals, tmpdir, pool, reported>>

SingleCommandFailed ==
    /\ pc = "single_wait"
    /\ log' = log \o <<"single_failed", "stream">>
    /\ StreamingEnter
    /\ UNCHANGED <<config, video_files, vi, error, locals, reported>>

\* len(timestamps) > 50: the condition short-circuits to the else branch
StreamingDirect ==
    /\ pc = "assemble"
    /\ Total > SingleMax
    /\ log' = log \o <<"assemble", "stream">>
    /\ StreamingEnter
    /\ UNCHANGED <<config, video_files, vi, error, locals, reported>>

\* a pool thread takes the next work item off the queue and starts extract_frame
WorkerStartUnbounded ==
    /\ pc \in {"as_completed", "shutdown"}
    /\ nextTask < Total
    /\ running' = running \cup {nextTask}
    /\ extractCmds' = Append(extractCmds, ExtractCmd(nextTask, timestamps[nextTask + 1],
                                                     args.size, args.image_quality))
    /\ nextTask' = nextTask + 1
    /\ UNCHANGED <<config, video_files, vi, pc, error, locals, tmpdir, frames,
                   failed, log, reported>>

WorkerStart ==
    /\ pc \in {"as_completed", "shutdown"}
    /\ nextTask < Total
    /\ Cardinality(running) < Workers
    /\ running' = running \cup {nextTask}
    /\ extractCmds' = Append(extractCmds, ExtractCmd(nextTask, timestamps[nextTask + 1],
                                                     args.size, args.image_quality))
    /\ nextTask' = nextTask + 1
    /\ UNCHANGED <<config, video_files, vi, pc, error, locals, tmpdir, frames,
                   failed, log, reported>>

\* the extract_frame started for index idx returns: the file it was told to write
\* holds the frame at the timestamp it was told to seek
WorkerDoneByCompletion(idx) ==
    /\ pc \in {"as_completed", "shutdown"}
    /\ idx \in running
    /\ running' = running \ {idx}
    /\ \E cmd \in {ExtractCmd(Cardinality(DOMAIN frames), timestamps[idx + 1],
                                args.size, args.image_quality)} :
            frames' = (cmd.out :> cmd.ss) @@ frames
    /\ UNCHANGED <<config, video_files, vi, pc, error, locals, tmpdir, nextTask,
                   failed, extractCmds, log, reported>>

WorkerDone(idx) ==
    /\ pc \in {"as_completed", "shutdown"}
    /\ idx \in running
    /\ running' = running \ {idx}
    /\ \E cmd \in {extractCmds[idx + 1]} :
            frames' = (cmd.out :> cmd.ss) @@ frames
    /\ UNCHANGED <<config, video_files, vi, pc, error, locals, tmpdir, nextTask,
                   failed, extractCmds, log, reported>>

\* extract_frame of index idx raises CalledProcessError: the future holds it
WorkerFailed(idx) ==
    /\ pc \in {"as_completed", "shutdown"}
    /\ idx \in running
    /\ idx <= MaxFailIdx
    /\ running' = running \ {idx}
    /\ failed' = failed \cup {idx}
    /\ UNCHANGED <<config, video_files, vi, pc, error, locals, tmpdir, nextTask,
                   frames, extractCmds, log, reported>>

\* for future in as_completed(futures): future.result().  A future that finished
\* well only advances the progress counter, which is not kept in the state; a
\* future that holds an exception makes future.result() raise, and the
\* executor's with block is left through shutdown(wait=True)
AsCompletedRaisesAfterAllSucceeded ==
    /\ pc = "as_completed"
    /\ failed # {}
    /\ Cardinality(DOMAIN frames) = Total
    /\ pc' = "shutdown"
    /\ UNCHANGED <<config, video_files, vi, error, locals, tmpdir, pool, log, reported>>

AsCompletedRaises ==
    /\ pc = "as_completed"
    /\ failed # {}
    /\ pc' = "shutdown"
    /\ UNCHANGED <<config, video_files, vi, error, locals, tmpdir, pool, log, reported>>

\* shutdown(wait=True) returns once the queue is drained and every thread has
\* ended; the exception then leaves the TemporaryDirectory block, which removes
\* the directory, and process_video
ShutdownRaisesLeaking ==
    /\ pc = "shutdown"
    /\ nextTask = Total
    /\ running = {}
    /\ log' = Append(log, "stream_failed")
    /\ Raise("CalledProcessError")
    /\ UNCHANGED <<config, video_files, vi, locals, tmpdir, pool, reported>>

ShutdownRaisesNoWait ==
    /\ pc = "shutdown"
    /\ log' = Append(log, "stream_failed")
    /\ tmpdir' = FALSE
    /\ frames' = <<>>
    /\ Raise("CalledProcessError")
    /\ UNCHANGED <<config, video_files, vi, locals, nextTask, running, failed,
                   extractCmds, reported>>

ShutdownRaises ==
    /\ pc = "shutdown"
    /\ nextTask = Total
    /\ running = {}
    /\ log' = Append(log, "stream_failed")
    /\ tmpdir' = FALSE
    /\ frames' = <<>>
    /\ Raise("CalledProcessError")
    /\ UNCHANGED <<config, video_files, vi, locals, nextTask, running, failed,
                   extractCmds, reported>>

\* every future was yielded without raising: the executor block ends and the
\* tiling command is run
ComposeRunWhenDrained ==
    /\ pc = "as_completed"
    /\ nextTask = Total
    /\ running = {}
    /\ log' = Append(log, "compose")
    /\ composeCmd' = ComposeCmd(Total, args.cols, args.image_format, args.image_quality)
    /\ pc' = "compose_wait"
    /\ UNCHANGED <<config, video_files, vi, error, duration, timestamps, singleCmd,
                   sprite, vtt, tmpdir, pool, reported>>

ComposeRun ==
    /\ pc = "as_completed"
    /\ Cardinality(DOMAIN frames) = Total
    /\ log' = Append(log, "compose")
    /\ composeCmd' = ComposeCmd(Total, args.cols, args.image_format, args.image_quality)
    /\ pc' = "compose_wait"
    /\ UNCHANGED <<config, video_files, vi, error, duration, timestamps, singleCmd,
                   sprite, vtt, tmpdir, pool, reported>>

\* the tiling ffmpeg exits 0: the sheet holds the frame files in index order; the
\* TemporaryDirectory block ends and create_sprite_streaming returns
ComposeOk ==
    /\ pc = "compose_wait"
    /\ log' = Append(log, "compose_ok")
    /\ sprite' = ReadFrames(frames)
    /\ tmpdir' = FALSE
    /\ frames' = <<>>
    /\ nextTask' = 0
    /\ pc' = "write_vtt"
    /\ UNCHANGED <<config, video_files, vi, error, duration, timestamps, singleCmd,
                   composeCmd, vtt, running, failed, extractCmds, reported>>

\* the tiling ffmpeg exits non-zero: CalledProcessError leaves the
\* TemporaryDirectory block and process_video
ComposeFailedContinues ==
    /\ pc = "compose_wait"
    /\ log' = Append(log, "compose_failed")
    /\ tmpdir' = FALSE
    /\ frames' = <<>>
    /\ nextTask' = 0
    /\ pc' = "write_vtt"
    /\ UNCHANGED <<config, video_files, vi, error, locals, running, failed,
                   extractCmds, reported>>

ComposeFailed ==
    /\ pc = "compose_wait"
    /\ log' = Append(log, "compose_failed")
    /\ tmpdir' = FALSE
    /\ frames' = <<>>
    /\ Raise("CalledProcessError")
    /\ UNCHANGED <<config, video_files, vi, locals, nextTask, running, failed,
                   extractCmds, reported>>

\* write_vtt(timestamps, cols, (width, height), sprite_path.name, vtt_path)
WriteVtt ==
    /\ pc = "write_vtt"
    /\ log' = Append(log, "write_vtt")
    /\ vtt' = write_vtt(timestamps, args.cols, args.size)
    /\ pc' = "report"
    /\ UNCHANGED <<config, video_files, vi, error, duration, timestamps, singleCmd,
                   composeCmd, sprite, tmpdir, pool, reported>>

\* the summary line is printed, process_video returns and main's loop goes on to
\* the next file
ReportNext ==
    /\ pc = "report"
    /\ vi < Len(video_files)
    /\ reported' = reported + 1
    /\ EnterVideo(vi + 1)
    /\ UNCHANGED <<config, video_files, error, tmpdir, frames, nextTask, running, failed>>

\* the summary line of the last file is printed and main returns
ReportLast ==
    /\ pc = "report"
    /\ vi = Len(video_files)
    /\ reported' = reported + 1
    /\ log' = Append(log, "report")
    /\ pc' = "done"
    /\ UNCHANGED <<config, video_files, vi, error, locals, tmpdir, pool>>

Next ==
    \/ MainDir
    \/ MainExit
    \/ MainFile
    \/ ProbeDuration
    \/ SampleStep
    \/ SampleRaises
    \/ SingleCommandRun
    \/ SingleCommandOk
    \/ SingleCommandFailed
    \/ StreamingDirect
    \/ WorkerStart
    \/ \E idx \in running : WorkerDone(idx)
    \/ \E idx \in running : WorkerFailed(idx)
    \/ AsCompletedRaises
    \/ ShutdownRaises
    \/ ComposeRun
    \/ ComposeOk
    \/ ComposeFailed
    \/ WriteVtt
    \/ ReportNext
    \/ ReportLast

Spec == Init /\ [][Next]_vars

(* ------------------------- the sampler on its own ----------------------- *)
\* process_video has probed a file of any duration up to MaxSampleDur tenths of
\* a second, with any interval up to MaxSampleInterval
InitSample ==
    /\ args \in {[cols |-> c, size |-> z, interval |-> i, image_format |-> "webp",
                  image_quality |-> q] :
                    c \in ColsSet, z \in Sizes, i \in 1..MaxSampleInterval, q \in Qualities}
    /\ cpu \in CpuCounts
    /\ input = [kind |-> "file", files |-> {[name |-> 1, ext |-> 1]}]
    /\ video_files = VideoFiles(input.files)
    /\ vi = 1
    /\ pc = "sample"
    /\ error = "none"
    /\ duration \in {[kind |-> "finite", ms |-> d * 100] : d \in 0..MaxSampleDur}
    /\ timestamps = <<>>
    /\ singleCmd = NoCmd
    /\ composeCmd = NoCmd
    /\ tmpdir = FALSE
    /\ frames = <<>>
    /\ nextTask = 0
    /\ running = {}
    /\ failed = {}
    /\ extractCmds = <<>>
    /\ sprite = <<>>
    /\ vtt = <<>>
    /\ reported = 0
    /\ log = <<"probe">>

NextSample == SampleStep

SpecSample == InitSample /\ [][NextSample]_vars

(* ------------------------- the assembly on its own ---------------------- *)
\* process_video has probed a file of durMs and sampled it: the state in which
\* line 159 chooses the strategy
AtAssemble(a, c, durMs) ==
    /\ args = a
    /\ cpu = c
    /\ input = [kind |-> "file", files |-> {[name |-> 1, ext |-> 1]}]
    /\ video_files = VideoFiles(input.files)
    /\ vi = 1
    /\ pc = "assemble"
    /\ error = "none"
    /\ duration = [kind |-> "finite", ms |-> durMs]
    /\ timestamps = SampleTimestamps(durMs, a.interval)
    /\ singleCmd = NoCmd
    /\ composeCmd = NoCmd
    /\ tmpdir = FALSE
    /\ frames = <<>>
    /\ nextTask = 0
    /\ running = {}
    /\ failed = {}
    /\ extractCmds = <<>>
    /\ sprite = <<>>
    /\ vtt = <<>>
    /\ reported = 0
    /\ log = <<"probe", "sample">>

(* ------------------- the encoder choice of both strategies -------------- *)
\* the two sprite functions are called with any format their branches tell
\* apart and any quality 0..MaxQuality, for a video of one sample and of three
AllFormats == {"webp", "jpg", "jpeg", "png"}
QualityRange == 0..MaxQuality

InitEnc ==
    \E f \in AllFormats, q \in QualityRange, d \in {3000, 12000} :
        AtAssemble([cols |-> DefaultCols, size |-> <<DefaultWidth, DefaultHeight>>,
                    interval |-> SparseInterval, image_format |-> f,
                    image_quality |-> q], MinWorkers, d)

NextEnc ==
    \/ SingleCommandRun
    \/ SingleCommandOk
    \/ SingleCommandFailed
    \/ WorkerStart
    \/ \E idx \in running : WorkerDone(idx)
    \/ ComposeRun
    \/ ComposeOk

SpecEnc == InitEnc /\ [][NextEnc]_vars

(* --------------------------- the pool on its own ------------------------ *)
\* create_sprite_streaming under every answer of os.cpu_count() that the clamp
\* of get_worker_count tells apart (0 is None), for videos of 1 and of 10
\* samples, and with two workers for one of 51 samples
PoolCpuCounts == {0, 1, MinWorkers, 3, MaxWorkers, 16}

InitPool ==
    \/ \E c \in PoolCpuCounts, d \in {3000, 50000} :
            AtAssemble([cols |-> DefaultCols, size |-> <<DefaultWidth, DefaultHeight>>,
                        interval |-> SparseInterval, image_format |-> "webp",
                        image_quality |-> DefaultQuality], c, d)
    \/ AtAssemble([cols |-> DefaultCols, size |-> <<DefaultWidth, DefaultHeight>>,
                   interval |-> 1, image_format |-> "webp",
                   image_quality |-> DefaultQuality], MinWorkers, 51000)

\* steps of the main thread inside the assembly
MainThreadStep ==
    \/ SingleCommandRun
    \/ StreamingDirect
    \/ AsCompletedRaises
    \/ ShutdownRaises
    \/ ComposeRun

\* a pool thread takes a task
PoolThreadStep == WorkerStart

\* an ffmpeg process ends, well or not
ExternalReturns ==
    \/ SingleCommandOk
    \/ SingleCommandFailed
    \/ \E idx \in running : WorkerDone(idx)
    \/ \E idx \in running : WorkerFailed(idx)
    \/ ComposeOk
    \/ ComposeFailed

NextPool ==
    \/ MainThreadStep
    \/ PoolThreadStep
    \/ ExternalReturns

SpecPool == InitPool /\ [][NextPool]_vars

\* the main thread and the pool threads are scheduled, and every ffmpeg process
\* that was started ends
SpecPoolFair ==
    /\ InitPool /\ [][NextPool]_vars
    /\ WF_vars(MainThreadStep)
    /\ WF_vars(PoolThreadStep)
    /\ WF_vars(ExternalReturns)

(* ------------------------------ properties ----------------------------- *)
Count(e) == Cardinality({i \in 1..Len(log) : log[i] = e})
Happened(e) == \E i \in 1..Len(log) : log[i] = e
\* every occurrence of event b has an occurrence of event a before it
Precedes(a, b) == \A j \in 1..Len(log) : log[j] = b => \E i \in 1..(j - 1) : log[i] = a
\* every occurrence of event a is directly followed by event b
FollowedBy(a, b) == \A i \in 1..Len(log) : log[i] = a => (i < Len(log) /\ log[i + 1] = b)
ExtractionActivity == running # {} \/ frames # <<>> \/ failed # {} \/ tmpdir

\* C1: a video with more than 50 samples never gets the single-pass command and
\* goes straight to streaming; a video with at most 50 samples gets the
\* single-pass command before any frame extraction or tiling.
C1_StrategySelection ==
    /\ Total > 50 =>
        /\ ~Happened("single")
        /\ singleCmd = NoCmd
        /\ FollowedBy("assemble", "stream")
    /\ Total <= 50 =>
        /\ FollowedBy("assemble", "single")
        /\ Precedes("single", "stream")
        /\ Precedes("single", "compose")
        /\ (ExtractionActivity \/ composeCmd # NoCmd) => Happened("single")

C1_Witness == Total > 50 /\ Happened("compose_ok") /\ pc = "report"

\* C2: a failed single-pass command is not run again and streaming follows it;
\* streaming runs exactly when there are more than 50 samples or the single-pass
\* command failed, never after it succeeded; each strategy runs at most once.
C2_FallbackWithoutRetry ==
    /\ Count("single") <= 1
    /\ Count("stream") <= 1
    /\ FollowedBy("single_failed", "stream")
    /\ Happened("stream") <=>
          \/ Total > 50 /\ Happened("assemble")
          \/ Happened("single_failed")
    /\ Happened("single_ok") => ~Happened("stream") /\ composeCmd = NoCmd /\ ~ExtractionActivity

C2_Witness == Happened("single_failed") /\ Happened("compose_ok") /\ pc = "done"

\* C3: the tiling command is issued only when all N extractions have succeeded;
\* once an extraction has failed the tiling command is never issued, the call
\* ends in an error and no cue file is written.
C3_ComposeOnlyAfterAllFrames ==
    /\ pc = "compose_wait" =>
        /\ DOMAIN frames = 0..(Total - 1)
        /\ running = {} /\ failed = {} /\ nextTask = Total
    /\ Happened("compose") => failed = {}
    /\ failed # {} =>
        /\ composeCmd = NoCmd /\ sprite = <<>>
        /\ vtt = <<>> /\ ~Happened("write_vtt")
        /\ pc \in {"as_completed", "shutdown", "crashed"}
    /\ Happened("stream_failed") => pc = "crashed" /\ error = "CalledProcessError"

C3_Witness ==
    /\ pc = "shutdown" /\ failed = {0}
    /\ Total >= 3 /\ DOMAIN frames = 1..(Total - 1)

\* C4: whatever the completion order, frame file i holds the frame of
\* timestamps[i], the tiling reads the files in index order, and so tile i of the
\* sheet is the frame of timestamps[i], the tile cue i addresses.
C4_FrameOrderIndependent ==
    /\ \A i \in DOMAIN frames : i \in 0..(Total - 1) /\ frames[i] = timestamps[i + 1]
    /\ Happened("compose_ok") =>
        /\ sprite = timestamps
        /\ \A i \in 1..Len(vtt) :
            /\ ParseTimestamp(vtt[i].start) = sprite[i]
            /\ vtt[i].x = ((i - 1) % composeCmd.tile[1]) * args.size[1]
            /\ vtt[i].y = ((i - 1) \div composeCmd.tile[1]) * args.size[2]

C4_Witness == pc = "as_completed" /\ 0 \in running /\ 2 \in DOMAIN frames

\* C5: the temporary directory exists only while create_sprite_streaming is
\* running: it is gone after a successful tiling, after a failed extraction and
\* after a failed tiling, and so when the next video starts.
C5_TmpdirReleased ==
    /\ tmpdir => pc \in {"as_completed", "shutdown", "compose_wait"}
    /\ frames # <<>> => tmpdir
    /\ pc \in {"probe", "sample", "assemble", "single_wait", "write_vtt", "report",
               "done", "crashed"} => ~tmpdir

C5_Witness == pc = "crashed" /\ Happened("stream_failed") /\ ~tmpdir /\ vi = 2

\* C6 as claimed: the samples are max(0.5, k*interval) for every k >= 0 with
\* k*interval < duration, and [0.5] when there is none.
SampleByRule(limitMs, interval) ==
    LET K == {k \in 0..(limitMs \div MsPerSec + 1) : k * interval * MsPerSec < limitMs}
    IN  IF K = {} THEN <<500>>
        ELSE [j \in 1..Cardinality(K) |-> Max(500, (j - 1) * interval * MsPerSec)]

C6_AsClaimed ==
    pc = "assemble" => timestamps = SampleByRule(duration.ms, args.interval)

\* C6 amended: the samples are max(0.5, k*interval) for every k >= 0 with
\* k*interval < floor(duration), and [0.5] when there is none.
C6_SamplesBelowWholeSeconds ==
    pc = "assemble" =>
        timestamps = SampleByRule((duration.ms \div MsPerSec) * MsPerSec, args.interval)

C6_Witness ==
    /\ pc = "assemble"
    /\ duration.ms = 10500 /\ args.interval = 5
    /\ timestamps = <<500, 5000>>

\* C7: the sample list is never empty, is strictly increasing and starts at
\* 0.5 s or later.
C7_SamplesIncreasing ==
    pc = "assemble" =>
        /\ Len(timestamps) >= 1
        /\ timestamps[1] >= 500
        /\ \A i \in 1..(Len(timestamps) - 1) : timestamps[i] < timestamps[i + 1]

C7_Witness == pc = "assemble" /\ args.interval = 1 /\ Len(timestamps) >= 3

\* C8: the cue file has one cue per timestamp; each cue but the last ends where
\* the next starts; the last ends one second after it starts.
C8_CueTimes ==
    Happened("write_vtt") =>
        /\ Len(vtt) = Len(timestamps)
        /\ \A i \in 1..(Len(vtt) - 1) : vtt[i].end = vtt[i + 1].start
        /\ ParseTimestamp(vtt[Len(vtt)].end) = ParseTimestamp(vtt[Len(vtt)].start) + 1000

C8_Witness == Happened("write_vtt") /\ Len(vtt) = 11

\* C9: cue i sits at ((i mod columns)*tileWidth, (i div columns)*tileHeight) and
\* inside the sheet of columns x ceil(n/columns) tiles that either strategy asks
\* ffmpeg for; the grid has room for all n tiles.
IssuedTilings == {singleCmd, composeCmd} \ {NoCmd}

C9_CuesInsideSheet ==
    \A cmd \in IssuedTilings :
        /\ cmd.tile[1] = args.cols
        /\ cmd.tile[1] * cmd.tile[2] >= Total
        /\ cmd.tile[1] * (cmd.tile[2] - 1) < Total
        /\ \A i \in 1..Len(vtt) :
            /\ vtt[i].x = ((i - 1) % args.cols) * args.size[1]
            /\ vtt[i].y = ((i - 1) \div args.cols) * args.size[2]
            /\ vtt[i].x + vtt[i].w <= cmd.tile[1] * args.size[1]
            /\ vtt[i].y + vtt[i].h <= cmd.tile[2] * args.size[2]

C9_Witness ==
    /\ Happened("write_vtt")
    /\ singleCmd # NoCmd /\ composeCmd # NoCmd
    /\ Total > args.cols /\ Total % args.cols # 0

\* C10: the steps of a video happen in the order probe, sample, assemble, write
\* cue track, report; the cue track is written only after an assembly succeeded;
\* a video is begun only when every video before it has been reported.
StepOrder == <<"probe", "sample", "assemble", "write_vtt", "report">>
Steps == SelectSeq(log, LAMBDA e : e \in {StepOrder[k] : k \in 1..Len(StepOrder)})

C10_StepOrder ==
    /\ Len(Steps) <= Len(StepOrder)
    /\ Steps = SubSeq(StepOrder, 1, Len(Steps))
    /\ Precedes("write_vtt", "report")
    /\ Happened("write_vtt") =>
        /\ sprite # <<>>
        /\ \E i \in 1..Len(log) : log[i] \in {"single_ok", "compose_ok"}
        /\ ~Happened("compose_failed") /\ ~Happened("stream_failed")
    /\ pc = "report" => Happened("write_vtt")
    /\ vi >= 1 => reported = (IF pc = "done" THEN vi ELSE vi - 1)

C10_Witness == vi = 2 /\ pc = "done" /\ Happened("compose_ok")

\* C11: once probing, sampling, extraction or tiling of a video has failed, no cue
\* file is written for that video and the run is over: the loop of main never
\* reaches a later video, so nothing is probed, assembled or written after it.
C11_FailureEndsRun ==
    /\ [](/\ error # "none" <=> pc = "crashed"
          /\ (Happened("stream_failed") \/ Happened("compose_failed")) => pc = "crashed"
          /\ pc = "crashed" =>
                /\ vtt = <<>> /\ ~Happened("write_vtt") /\ ~Happened("report")
                /\ reported = vi - 1)
    /\ [][pc = "crashed" =>
            /\ pc' = "crashed" /\ vi' = vi /\ reported' = reported
            /\ log' = log /\ vtt' = vtt /\ sprite' = sprite
            /\ singleCmd' = singleCmd /\ composeCmd' = composeCmd]_vars

C11_Witness == pc = "crashed" /\ vi = 1 /\ Len(video_files) = 2 /\ Happened("compose_failed")

\* C12 as claimed: for png the quality is ignored: every command issued (the
\* single-pass command, each frame extraction, the tiling command) is the
\* command issued for the same inputs with any other quality.
C12_AsClaimed ==
    args.image_format = "png" =>
        \A q2 \in QualityRange :
            /\ singleCmd # NoCmd =>
                    singleCmd = SingleCmd(timestamps, args.size, args.cols, "png", q2, cpu)
            /\ \A i \in 1..Len(extractCmds) :
                    extractCmds[i] = ExtractCmd(i - 1, timestamps[i], args.size, q2)
            /\ composeCmd # NoCmd =>
                    composeCmd = ComposeCmd(Total, args.cols, "png", q2)

\* C13: for every format and quality the single-pass command and the tiling
\* command of the streaming strategy carry the same encoder, quality value and
\* compression level.
C13_SameEncoderBothStrategies ==
    /\ singleCmd # NoCmd =>
            singleCmd.enc = StreamingEncoder(args.image_format, args.image_quality)
    /\ composeCmd # NoCmd =>
            composeCmd.enc = SingleEncoder(args.image_format, args.image_quality)
    /\ (singleCmd # NoCmd /\ composeCmd # NoCmd) => singleCmd.enc = composeCmd.enc

C13_Witness ==
    /\ singleCmd # NoCmd /\ composeCmd # NoCmd
    /\ args.image_format = "jpeg" /\ args.image_quality = 0

\* C14: every mjpeg quality value passed to ffmpeg is
\* clamp(32 - floor(quality*30/100), 2, 31), lies in 2..31, and is no larger than
\* the value of any lower quality and no smaller than that of any higher one.
Clamp(x, lo, hi) == IF x < lo THEN lo ELSE IF x > hi THEN hi ELSE x
MjpegCmds ==
    {c \in ({singleCmd, composeCmd} \ {NoCmd}) \cup {extractCmds[i] : i \in 1..Len(extractCmds)} :
        c.enc.codec = "mjpeg"}

C14_JpegQuality ==
    \A c \in MjpegCmds :
        /\ c.enc.q = Clamp(32 - ((args.image_quality * 30) \div 100), 2, 31)
        /\ c.enc.q \in 2..31
        /\ \A q2 \in QualityRange :
            /\ q2 <= args.image_quality => JpegQ(q2) >= c.enc.q
            /\ q2 >= args.image_quality => JpegQ(q2) <= c.enc.q

C14_Witness ==
    /\ args.image_format = "jpg" /\ args.image_quality = 0
    /\ singleCmd # NoCmd /\ singleCmd.enc.q = 31
    /\ composeCmd # NoCmd /\ Len(extractCmds) = 3

\* C15 as claimed: when ffprobe exits non-zero or prints something that is not a
\* finite non-negative number (text, a negative number, inf, nan), the video ends
\* in an error with no sample list, no assembly and no cue file.
BadProbeAnswer ==
    \/ duration.kind \in {"nan", "inf"}
    \/ duration.kind = "finite" /\ duration.ms < 0

C15_AsClaimed ==
    /\ BadProbeAnswer =>
        /\ pc \in {"sample", "crashed"}
        /\ timestamps = <<>> /\ ~Happened("assemble")
        /\ singleCmd = NoCmd /\ composeCmd = NoCmd /\ extractCmds = <<>>
        /\ vtt = <<>>
    /\ (pc = "crashed" /\ log = <<"probe">>) =>
        /\ duration = NoProbe /\ timestamps = <<>> /\ vtt = <<>>

\* how the names of two files compare: by stem, then by extension as text
\* (avi < m4v < mkv < mov < mp4 < webm); extensions are numbered mp4, mov, avi,
\* mkv, webm, m4v as in the pattern tuple
ExtAlpha == <<5, 4, 1, 3, 6, 2>>
SortsBefore(a, b) ==
    \/ a.name < b.name
    \/ a.name = b.name /\ ExtAlpha[a.ext] < ExtAlpha[b.ext]

EachFileOnce ==
    /\ {video_files[i] : i \in 1..Len(video_files)} = input.files
    /\ Len(video_files) = Cardinality(input.files)

\* C16 as claimed: for a directory, a file is processed only after every matched
\* file that sorts before it, and every matched file is processed exactly once.
C16_AsClaimed ==
    (input.kind = "dir" /\ vi >= 1) =>
        /\ EachFileOnce
        /\ \A i \in 1..vi, j \in 1..Len(video_files) :
                SortsBefore(video_files[j], video_files[i]) => j < i

\* C16 amended: for a directory, the files are processed pattern by pattern
\* (mp4, mov, avi, mkv, webm, m4v) and in sorted order within one pattern, one
\* after the other, and every matched file is processed exactly once.
C16_SortedWithinPattern ==
    /\ []((input.kind = "dir" /\ vi >= 1) =>
            /\ EachFileOnce
            /\ vi \in 1..Len(video_files)
            /\ pc = "done" => vi = Len(video_files)
            /\ \A i \in 1..Len(video_files), j \in 1..Len(video_files) :
                    i < j =>
                        \/ video_files[i].ext < video_files[j].ext
                        \/ /\ video_files[i].ext = video_files[j].ext
                           /\ video_files[i].name < video_files[j].name)
    /\ [][vi' = vi \/ (vi' = vi + 1 /\ pc' = "probe")]_vars

C16_Witness ==
    /\ input.kind = "dir" /\ pc = "done"
    /\ video_files = <<[name |-> 2, ext |-> 1], [name |-> 1, ext |-> 2]>>

\* C17: when an extraction has failed, the error leaves the assembly only when
\* every submitted task has been run to its end (none is still queued or
\* running, each has either written its frame or failed); tasks are still taken
\* from the queue after the failure; the frames of the others are thrown away
\* and nothing is tiled.
C17_NoCancellation ==
    /\ [](Happened("stream_failed") =>
            /\ running = {} /\ nextTask = Total /\ Len(extractCmds) = Total
            /\ frames = <<>> /\ ~tmpdir /\ sprite = <<>> /\ composeCmd = NoCmd)
    /\ [][(pc = "shutdown" /\ pc' # "shutdown") =>
            /\ running = {} /\ nextTask = Total
            /\ DOMAIN frames \cup failed = 0..(Total - 1)
            /\ pc' = "crashed" /\ frames' = <<>> /\ sprite' = <<>>]_vars
    /\ [][(failed # {} /\ pc \in {"as_completed", "shutdown"}) =>
            /\ nextTask' >= nextTask
            /\ running' \subseteq running \cup {nextTask}
            /\ failed \subseteq failed']_vars

C17_Witness ==
    /\ pc = "crashed" /\ Happened("stream_failed")
    /\ Total = 10 /\ Workers = 3 /\ failed = {0}

\* C18: the number of extractions running at once never exceeds
\* clamp(cpuCount, 2, 8), with 4 for an unknown cpuCount; while the single-pass
\* command runs, and after it succeeded, no extraction has been started.
ClampedCpu ==
    LET c == IF cpu = 0 THEN 4 ELSE cpu
    IN  IF c < 2 THEN 2 ELSE IF c > 8 THEN 8 ELSE c

C18_BoundedPool ==
    /\ Cardinality(running) <= ClampedCpu
    /\ running \subseteq 0..(Total - 1)
    /\ (pc = "single_wait" \/ Happened("single_ok")) =>
            running = {} /\ extractCmds = <<>> /\ ~tmpdir

C18_Witness == cpu = 16 /\ Cardinality(running) = 8 /\ nextTask < Total

\* C19: task k is started for sample index k and told to write frame file k, so no
\* two tasks are given the same file; a frame file is written once, by the task
\* of its index; when the tiling starts the files are exactly 0..N-1.
C19_OneTaskPerIndex ==
    /\ [](pc \in {"as_completed", "shutdown", "compose_wait"} =>
            /\ Len(extractCmds) = nextTask /\ nextTask <= Total
            /\ \A i \in 1..Len(extractCmds) :
                    extractCmds[i].out = i - 1 /\ extractCmds[i].ss = timestamps[i]
            /\ \A i \in 1..Len(extractCmds), j \in 1..Len(extractCmds) :
                    i # j => extractCmds[i].out # extractCmds[j].out
            /\ running \cup DOMAIN frames \cup failed = 0..(nextTask - 1)
            /\ running \cap DOMAIN frames = {}
            /\ running \cap failed = {}
            /\ failed \cap DOMAIN frames = {}
            /\ pc = "compose_wait" => DOMAIN frames = 0..(Total - 1))
    /\ [][(frames' # frames /\ frames' # <<>>) =>
            \E idx \in running :
                /\ idx \notin DOMAIN frames
                /\ frames' = (idx :> timestamps[idx + 1]) @@ frames]_vars

C19_Witness ==
    /\ pc = "compose_wait" /\ Total = 10 /\ Workers = 8
    /\ DOMAIN frames = 0..9

\* C20: if the threads are scheduled and every ffmpeg process ends, every
\* assembly ends: with a sprite written, or with an error raised.
C20_AssemblyTerminates ==
    (pc = "assemble") ~>
        \/ pc = "write_vtt" /\ sprite # <<>>
        \/ pc = "crashed" /\ error # "none"

C20_Witness ==
    /\ pc = "crashed" /\ Happened("stream_failed")
    /\ Total > SingleMax

====
